---- MODULE Spec2Model ----
(***************************************************************************)
(* A model of the chat session client (class ChatWsManager,                *)
(* src/src/utils/ChatWsManager.ts): one WebSocket, one auth handshake, one *)
(* chat request, a dispatch on the type of every inbound frame, an idle    *)
(* timer and an auto-close timer.                                          *)
(*                                                                         *)
(* The instance, its socket, the pending timers of the event loop and the  *)
(* log of callback invocations are one record, mgr; the methods of the     *)
(* class are operators from such a record to the record after the call.    *)
(* Time is counted in ticks of one second.                                 *)
(*                                                                         *)
(* Spec and FairSpec are the session with a server that sends any frame;   *)
(* DispatchSpec has a server that sends voice frames and frames of unknown *)
(* type, ProtocolSpec a server that follows the legacy or the phased       *)
(* protocol, TwinSpec two sessions that are fed the same events.  HookSpec  *)
(* is the caller hook useMessageHandler                                    *)
(* (src/src/hooks/useMessageHandler.ts) with the sessions it creates,      *)
(* EffectSpec the effect-based hook useChatWsManager                       *)
(* (src/unnamed/part_005), QueueSpec the voice playback queue              *)
(* (src/src/hooks/useAudioProcessing.ts).                                  *)
(***************************************************************************)
EXTENDS Integers, Sequences, FiniteSets, TLC

VARIABLES
    mgr,            \* the ChatWsManager instance, its socket, timers and callback log
    framesLeft,     \* number of inbound frames the server may still send
    sinceFrame,     \* ticks an idle timer has been waiting since construction or the last parsed frame
    closeCalls,     \* number of close() invocations, whoever made them (counted up to 2)
    gapAtExpiry,    \* the least sinceFrame at which an idle timer expired, -1 before
    errorMark,      \* Len(mgr.calls) right after an error frame that followed chat_start and no other error, 0 before
    seenTypes,      \* the types of the parsed frames processed so far
    lateFrames,     \* number of parsed frames that arrived after time had passed, but less than Timeout
    closeRequestedBy, \* who made the call of close() that asked the transport to close, "" before
    received,       \* the message events delivered to onmessage so far, in arrival order
    hook,           \* the state of the caller-side code under study: a useMessageHandler
                    \* instance, a useChatWsManager instance or an audio queue
    sessions        \* the ChatWsManager instances that hook instance has created, in order

vars == <<mgr, framesLeft, sinceFrame, closeCalls, gapAtExpiry, errorMark, seenTypes,
          lateFrames, closeRequestedBy, received, hook, sessions>>

\* the variables of the caller hook, which the single session leaves alone
hookVars == <<hook, sessions>>

\* the variables of the single session, which the caller hook leaves alone
sessionVars == <<mgr, sinceFrame, closeCalls, gapAtExpiry, errorMark, seenTypes,
                 lateFrames, closeRequestedBy, received>>

-----------------------------------------------------------------------------
(* Bounds of the model *)

\* inbound frames the server sends in one session
MaxFrames == 3

\* the same, in the sessions checked for liveness
MaxFairFrames == 2

\* the same, in the sessions of a server that sends voice frames and frames of a
\* type the client does not know
MaxDispatchFrames == 3

\* the configured idle timeout (options.timeout), in ticks
Timeout == 2

\* the delay of the auto-close timer armed after a completion: 1000 ms, one tick
AutoCloseDelay == 1

\* messages the user submits through one hook instance
MaxSubmits == 2

\* inbound frames the servers send to the sessions of one hook instance, in all
MaxHookFrames == 2

\* inbound frames the server sends to each of two sessions run side by side
MaxTwinFrames == 3

\* turns the caller of one useChatWsManager instance starts
MaxTurns == 2

\* inbound frames the servers send to the sessions of one useChatWsManager
\* instance, in all
MaxEffectFrames == 2

\* audio chunks pushed to one playback queue
MaxPushes == 3

\* calls of clear() on one playback queue
MaxClears == 2

\* chunk frames a server of the legacy protocol sends before complete, at most
MaxChunks == 2

\* voice and image frames a server of the phased protocol sends in one turn, at most
MaxExtras == 2

-----------------------------------------------------------------------------
(* JavaScript values *)

\* a field that is absent from a frame reads as undefined
Undefined == "undefined"

\* the null of _timeoutId; timer handles are positive integers
NoTimer == 0

\* the null of currentChatId
NullId == "null"

\* message.k for a string field k
Field(m, k) == IF k \in DOMAIN m THEN m[k] ELSE Undefined

\* message.k || d for a string field k: absent and empty are both falsy
StrOr(m, k, d) == IF k \in DOMAIN m /\ m[k] # "" THEN m[k] ELSE d

\* message.k || false for a boolean field k
BoolOr(m, k) == k \in DOMAIN m /\ m[k]

\* `msg-${Date.now()}`
GeneratedMessageId == "msg-" \o "now"

-----------------------------------------------------------------------------
(* The turn requests a session is constructed with *)

TurnRequests ==
    { [question |-> "Hi", authToken |-> "jwt", enableVoice |-> FALSE,
       enableImage |-> FALSE, chatId |-> Undefined],
      [question |-> "Hi", authToken |-> "jwt", enableVoice |-> TRUE,
       enableImage |-> TRUE, chatId |-> "c0"] }

(* The frames the server may put on the wire.  A wire frame carries the    *)
(* text of the frame and, when that text is JSON, the value it denotes.    *)
ParsedFrames ==
    { [type |-> "auth_success", user_id |-> "u1"],
      [type |-> "chat_start", chat_id |-> "c1", message_id |-> "m1", voice_enabled |-> TRUE],
      [type |-> "text_complete", chat_id |-> "c1", full_response |-> "Hello!"],
      [type |-> "chat_complete", chat_id |-> "c1"],
      [type |-> "chunk", content |-> "Hel"],
      [type |-> "complete", full_response |-> "Hello"],
      [type |-> "error", error |-> "rate limited"],
      [error |-> "boom"],
      [type |-> "ping"] }

WireFrames ==
    { [data |-> "json", value |-> f] : f \in ParsedFrames } \cup { [data |-> "<html>"] }

(* Frames of the voice phase, and frames whose type is not one the client    *)
(* dispatches on                                                            *)
DispatchFrames ==
    { [type |-> "voice_chunk", chat_id |-> "c1", audio |-> "AAA", format |-> "wav"],
      [type |-> "voice_chunk", chat_id |-> "c1", audio |-> "BBB"],
      [type |-> "voice_complete", chat_id |-> "c1", audio |-> "CCC", format |-> "wav"],
      [type |-> "voice_complete", chat_id |-> "c1", audio |-> "DDD"],
      [type |-> "voice_complete", chat_id |-> "c1", audio |-> ""],
      [type |-> "voice_complete", chat_id |-> "c1"],
      [type |-> "usage", total_tokens |-> "12"],
      [type |-> "usage", error |-> "quota"],
      [type |-> "usage", a |-> "x"],
      [type |-> "usage", sources |-> <<"s1">>] }

DispatchWireFrames == { [data |-> "json", value |-> f] : f \in DispatchFrames }

(* The frames of a server that follows one of the two protocols *)

AuthSuccess == [type |-> "auth_success", user_id |-> "u1"]

StreamStart == [type |-> "stream_start"]

ChunkFrames == { [type |-> "chunk", content |-> x] : x \in {"Hel", "lo", ""} }

\* the final texts a legacy server may send whatever it streamed before
FinalTexts == {"Hi!", ""}

ChatStartFrames ==
    { [type |-> "chat_start", chat_id |-> "c1", message_id |-> "m1"],
      [type |-> "chat_start", chat_id |-> "c1", message_id |-> "m1", voice_enabled |-> TRUE],
      [type |-> "chat_start", chat_id |-> "c1", message_id |-> "m1", voice_enabled |-> FALSE,
       image_enabled |-> TRUE] }

TextCompleteFrames ==
    { [type |-> "text_complete", chat_id |-> "c1", full_response |-> t] : t \in {"Hello", ""} }

ExtraFrames ==
    { [type |-> "voice_chunk", chat_id |-> "c1", audio |-> "AAA", format |-> "mp3"],
      [type |-> "voice_complete", chat_id |-> "c1", audio |-> "CCC"],
      [type |-> "image_complete", chat_id |-> "c1", image_url |-> "http://img"] }

ChatCompleteFrames ==
    { [type |-> "chat_complete", chat_id |-> "c1"],
      [type |-> "chat_complete", chat_id |-> "c1", message_id |-> "m1", voice_enabled |-> TRUE] }

\* JSON.parse(event.data)
JSONparse(w) ==
    IF "value" \in DOMAIN w
    THEN [ok |-> TRUE, value |-> w.value]
    ELSE [ok |-> FALSE, e |-> "SyntaxError"]

-----------------------------------------------------------------------------
(* The methods of ChatWsManager, as functions of the instance record *)

\* a callback invocation that overtakes the earlier ones
callOvertakes(s, c) ==
    [s EXCEPT !.calls = <<c>> \o @, !.effects = <<<<"callback", c[1]>>>> \o @]

\* a callback is invoked; effects keeps the order of callbacks and sends
Call(s, c) ==
    [s EXCEPT !.calls = Append(@, c), !.effects = Append(@, <<"callback", c[1]>>)]

\* setTimeout(cb, delay): a new pending timer with a fresh handle
SetTimer(s, kind, delay) ==
    [s EXCEPT !.timers = @ \cup {[id |-> s.nextTimerId, kind |-> kind, left |-> delay]},
              !.nextTimerId = @ + 1]

\* _clearTimeout(id)
ClearTimer(s, id) == [s EXCEPT !.timers = {t \in @ : t.id # id}]

_startTimeout(s) ==
    [SetTimer(s, "idle", Timeout) EXCEPT !.timeoutId = s.nextTimerId]

\* _clearTimeout that forgets the handle without cancelling the timer
clearTimeoutForgetsTimer(s) == [s EXCEPT !.timeoutId = NoTimer]

_clearTimeout(s) ==
    IF s.timeoutId # NoTimer
    THEN [ClearTimer(s, s.timeoutId) EXCEPT !.timeoutId = NoTimer]
    ELSE s

\* _resetTimeout without its _clearTimeout: the old timer stays pending
resetTimeoutKeepsOldTimer(s) == _startTimeout(s)

_resetTimeout(s) == _startTimeout(_clearTimeout(s))

\* _handleError without its _clearTimeout
handleErrorKeepsTimer(s, reason) == Call(s, <<"onError", reason>>)

_handleError(s, reason) == _clearTimeout(Call(s, <<"onError", reason>>))

\* WebSocket.send: queued on an OPEN socket, dropped on a CLOSING or CLOSED one
WsSend(s, frame) ==
    IF s.readyState = "OPEN"
    THEN [s EXCEPT !.sent = Append(@, frame), !.effects = Append(@, <<"send", frame.type>>)]
    ELSE s

\* a close after which the socket still delivers message events
wsCloseStillDelivers(s) == [s EXCEPT !.closeRequests = @ + 1]

\* WebSocket.close(1000, 'Manual close'): the closing handshake starts on an OPEN
\* socket; a socket that is still CONNECTING is made to fail
WsClose(s) ==
    [s EXCEPT !.readyState = "CLOSING",
              !.mustFail = (s.readyState = "CONNECTING"),
              !.closeRequests = @ + 1]

_sendAuthMessage(s) ==
    WsSend(s, [type |-> "auth", token |-> s.options.authToken])

_sendQuestionMessage(s) ==
    LET chatPayload == [type |-> "chat",
                        message |-> s.options.question,
                        enable_voice |-> s.options.enableVoice,
                        enable_image |-> s.options.enableImage]
    IN  IF s.options.chatId \notin {Undefined, ""}
        THEN WsSend(s, [type |-> "chat",
                        message |-> chatPayload.message,
                        enable_voice |-> chatPayload.enable_voice,
                        enable_image |-> chatPayload.enable_image,
                        chat_id |-> s.options.chatId])
        ELSE WsSend(s, chatPayload)

\* close() without the readyState test
closeUnguarded(s) == WsClose(_clearTimeout(s))

\* close() without _clearTimeout
closeKeepsTimer(s) ==
    IF s.readyState \in {"OPEN", "CONNECTING"} THEN WsClose(s) ELSE s

close(s) ==
    LET c == _clearTimeout(s) IN
    IF c.readyState \in {"OPEN", "CONNECTING"} THEN WsClose(c) ELSE c

\* the callback of the idle timer (the timer itself is already off the event loop)
idleTimeoutCallback(s) == close(s)

\* this.close() at once instead of setTimeout(() => this.close(), 1000)
closeAtCompletion(s) == close(s)

\* setTimeout(() => this.close(), 1000)
scheduleAutoClose(s) == SetTimer(s, "autoclose", AutoCloseDelay)

\* the branches of _handleMessage that follow the typed ones
handleUntyped(s, m) ==
    IF Field(m, "type") = "error" THEN _handleError(s, Field(m, "error"))
    ELSE IF StrOr(m, "error", "") # "" THEN _handleError(s, m.error)
    ELSE IF "array" \in DOMAIN m THEN Call(s, <<"setSources", m.array>>)
    ELSE IF "sources" \in DOMAIN m THEN Call(s, <<"setSources", m.sources>>)
    ELSE IF StrOr(m, "a", "") # ""
         THEN LET s1 == [s EXCEPT !.answer = @ \o m.a]
              IN  Call(s1, <<"setAnswer", s1.answer>>)
    ELSE s

\* the chat_start branch reporting the voice flag the caller asked for
chatStartReportsRequestedVoice(s, m) ==
    LET s1 == [s EXCEPT !.currentChatId = Field(m, "chat_id"),
                        !.voiceEnabled = s.options.enableVoice,
                        !.answer = ""]
    IN  Call(s1, <<"onChatStart", Field(m, "chat_id"), Field(m, "message_id"),
                   s1.voiceEnabled, BoolOr(m, "image_enabled")>>)

\* the chat_start branch of _handleMessage
handleChatStart(s, m) ==
    LET s1 == [s EXCEPT !.currentChatId = Field(m, "chat_id"),
                        !.voiceEnabled = BoolOr(m, "voice_enabled"),
                        !.answer = ""]
    IN  Call(s1, <<"onChatStart", Field(m, "chat_id"), Field(m, "message_id"),
                   s1.voiceEnabled, BoolOr(m, "image_enabled")>>)

\* the text_complete branch without the assignment to this.answer
textCompleteKeepsBuffer(s, m) ==
    Call(Call(s, <<"setAnswer", s.answer>>),
         <<"onTextComplete", Field(m, "chat_id"), Field(m, "full_response")>>)

\* the text_complete branch of _handleMessage
handleTextComplete(s, m) ==
    LET s1 == [s EXCEPT !.answer = Field(m, "full_response")]
    IN  Call(Call(s1, <<"setAnswer", s1.answer>>),
             <<"onTextComplete", Field(m, "chat_id"), Field(m, "full_response")>>)

\* the voice_complete branch without the forwarding of the audio it carries
voiceCompleteDropsAudio(s, m) == Call(s, <<"onVoiceComplete", Field(m, "chat_id")>>)

\* the voice_complete branch of _handleMessage
handleVoiceComplete(s, m) ==
    LET s1 == IF StrOr(m, "audio", "") # ""
              THEN Call(s, <<"onVoiceChunk", Field(m, "chat_id"), m.audio,
                             StrOr(m, "format", "mp3")>>)
              ELSE s
    IN  Call(s1, <<"onVoiceComplete", Field(m, "chat_id")>>)

_handleMessage(s0, m) ==
    LET s == _resetTimeout(s0)
        type == Field(m, "type")
    IN
    CASE type = "auth_success" ->
           _sendQuestionMessage(Call([s EXCEPT !.isAuthenticated = TRUE], <<"onAuthenticated">>))
      [] type = "chat_start" -> handleChatStart(s, m)
      [] type = "text_complete" -> handleTextComplete(s, m)
      [] type = "voice_start" ->
           Call(s, <<"onVoiceStart", Field(m, "chat_id")>>)
      [] type = "voice_chunk" ->
           Call(s, <<"onVoiceChunk", Field(m, "chat_id"), Field(m, "audio"),
                     StrOr(m, "format", "mp3")>>)
      [] type = "voice_complete" -> handleVoiceComplete(s, m)
      [] type = "chat_complete" ->
           scheduleAutoClose(
             Call(_clearTimeout(s),
                  <<"onChatComplete", Field(m, "chat_id"),
                    StrOr(m, "message_id", GeneratedMessageId), s.answer,
                    BoolOr(m, "voice_enabled"), BoolOr(m, "image_enabled")>>))
      [] type = "image_start" ->
           Call(s, <<"onImageStart", Field(m, "chat_id"), StrOr(m, "prompt", "")>>)
      [] type = "image_progress" ->
           Call(s, <<"onImageProgress", Field(m, "chat_id"),
                     StrOr(m, "message", "Generating image...")>>)
      [] type = "image_complete" ->
           Call(s, <<"onImageComplete", Field(m, "chat_id"), Field(m, "image_url")>>)
      [] type = "image_error" ->
           Call(s, <<"onImageError", Field(m, "chat_id"),
                     StrOr(m, "error", "Failed to generate image")>>)
      [] type = "stream_start" ->
           LET chatId == StrOr(m, "chat_id",
                               IF s.currentChatId \notin {NullId, Undefined, ""}
                               THEN s.currentChatId ELSE "unknown")
           IN  Call([s EXCEPT !.currentChatId = chatId],
                    <<"onChatStart", chatId, StrOr(m, "message_id", GeneratedMessageId),
                      FALSE, FALSE>>)
      [] type = "chunk" ->
           LET s1 == [s EXCEPT !.answer = @ \o Field(m, "content")]
           IN  Call(s1, <<"setAnswer", s1.answer>>)
      [] type = "complete" ->
           LET s1 == _clearTimeout(s)
               s2 == IF StrOr(m, "full_response", "") # ""
                     THEN Call([s1 EXCEPT !.answer = m.full_response],
                               <<"setAnswer", m.full_response>>)
                     ELSE s1
               chatId == StrOr(m, "chat_id",
                               IF s.currentChatId \notin {NullId, Undefined, ""}
                               THEN s.currentChatId ELSE "unknown")
           IN  scheduleAutoClose(
                 Call(s2, <<"onChatComplete", chatId,
                            StrOr(m, "message_id", GeneratedMessageId),
                            Field(m, "full_response"), FALSE, FALSE>>))
      [] type = "chat_chunk" ->
           LET s1 == [s EXCEPT !.answer = @ \o Field(m, "content")]
           IN  Call(s1, <<"setAnswer", s1.answer>>)
      [] OTHER -> handleUntyped(s, m)

\* an onopen that sends the question without waiting for auth_success
onopenSendsQuestion(s) ==
    _sendQuestionMessage(_sendAuthMessage(Call(s, <<"onConnect">>)))

\* an onopen that sends the auth frame before it invokes onConnect
onopenAuthBeforeConnect(s) == Call(_sendAuthMessage(s), <<"onConnect">>)

\* the handlers bound by _bindEvents
onopen(s) == _sendAuthMessage(Call(s, <<"onConnect">>))

onmessage(s, event) ==
    LET parsed == JSONparse(event) IN
    IF parsed.ok
    THEN _handleMessage(s, parsed.value)
    ELSE _handleError(s, "Invalid JSON received from WebSocket: " \o parsed.e
                        \o " for message: " \o event.data)

\* an onclose that connects again
oncloseReconnects(s) ==
    [_clearTimeout(s) EXCEPT !.readyState = "CONNECTING", !.connections = @ + 1]

onclose(s) == _clearTimeout(s)

\* an onerror that reports nothing
onerrorSilent(s) == _clearTimeout(s)

onerror(s) == _handleError(s, "WebSocket connection error")

\* a constructor that does not arm the idle timer
constructorWithoutTimer(options) ==
    [options |-> options,
     answer |-> "",
     isAuthenticated |-> FALSE,
     currentChatId |-> NullId,
     voiceEnabled |-> FALSE,
     timeoutId |-> NoTimer,
     connections |-> 1,
     readyState |-> "CONNECTING",
     mustFail |-> FALSE,
     sent |-> <<>>,
     closeRequests |-> 0,
     timers |-> {},
     nextTimerId |-> 1,
     calls |-> <<>>,
     effects |-> <<>>]

\* new ChatWsManager(options); connections counts the executions of new WebSocket
constructor(options) ==
    _startTimeout([options |-> options,
                  answer |-> "",
                  isAuthenticated |-> FALSE,
                  currentChatId |-> NullId,
                  voiceEnabled |-> FALSE,
                  timeoutId |-> NoTimer,
                  connections |-> 1,
                  readyState |-> "CONNECTING",
                  mustFail |-> FALSE,
                  sent |-> <<>>,
                  closeRequests |-> 0,
                  timers |-> {},
                  nextTimerId |-> 1,
                  calls |-> <<>>,
                  effects |-> <<>>])

\* no session held: the null of wsManagerRef.current
NoSession == 0

\* the state of a useMessageHandler instance after its first render; closed is
\* the set of the sessions on which the hook has called close(), and late tells
\* whether a session has handled an event while the hook held another one
useMessageHandler ==
    [wsManagerRef |-> NoSession,
     currentMessageIdRef |-> NullId,
     isLoading |-> FALSE,
     renderedIsLoading |-> FALSE,
     submits |-> 0,
     closed |-> {},
     late |-> FALSE]

-----------------------------------------------------------------------------
(* The state after construction *)

InitWith(frames) ==
    /\ mgr \in { constructor(o) : o \in TurnRequests }
    /\ framesLeft = frames
    /\ sinceFrame = 0
    /\ closeCalls = 0
    /\ gapAtExpiry = -1
    /\ errorMark = 0
    /\ seenTypes = {}
    /\ lateFrames = 0
    /\ closeRequestedBy = ""
    /\ received = <<>>
    /\ hook = useMessageHandler
    /\ sessions = <<>>

Init == InitWith(MaxFrames)

FairInit == InitWith(MaxFairFrames)

DispatchInit == InitWith(MaxDispatchFrames)

\* a server that follows a protocol sends, at most, auth_success, a start frame,
\* the chunks or the extras with the text, and a completion frame
ProtocolInit == InitWith(MaxChunks + MaxExtras + 4)

-----------------------------------------------------------------------------
(* The events of the transport.  A WebSocket delivers open only while      *)
(* CONNECTING and message only while OPEN; when the connection fails it    *)
(* becomes CLOSED and fires error and then close; a clean end of the       *)
(* connection fires close alone.  A socket closed while CONNECTING fails.  *)

Count(s, cb) == Cardinality({ i \in 1..Len(s.calls) : s.calls[i][1] = cb })

IdleTimers(s) == { t \in s.timers : t.kind = "idle" }

AutoCloseTimers(s) == { t \in s.timers : t.kind = "autoclose" }

TransportOpen ==
    /\ mgr.readyState = "CONNECTING"
    /\ mgr' = onopen([mgr EXCEPT !.readyState = "OPEN"])
    /\ UNCHANGED <<framesLeft, sinceFrame, closeCalls, gapAtExpiry, errorMark, seenTypes,
                   lateFrames, closeRequestedBy, received>>
    /\ UNCHANGED hookVars

\* the socket is OPEN and dispatches one message event to onmessage
Deliver(event) ==
    LET parsed == JSONparse(event)
        type == IF parsed.ok THEN Field(parsed.value, "type") ELSE "not JSON"
    IN  /\ mgr.readyState = "OPEN"
        /\ framesLeft > 0
        /\ mgr' = onmessage(mgr, event)
        /\ framesLeft' = framesLeft - 1
        /\ received' = Append(received, event)
        /\ sinceFrame' = IF parsed.ok THEN 0 ELSE sinceFrame
        /\ errorMark' = IF /\ errorMark = 0
                            /\ type = "error"
                            /\ Count(mgr, "onChatStart") > 0
                            /\ Count(mgr, "onError") = 0
                         THEN Len(mgr'.calls) ELSE errorMark
        /\ seenTypes' = IF parsed.ok THEN seenTypes \cup {type} ELSE seenTypes
        /\ lateFrames' = IF parsed.ok /\ 0 < sinceFrame /\ sinceFrame < Timeout
                          THEN lateFrames + 1 ELSE lateFrames
        /\ UNCHANGED <<closeCalls, gapAtExpiry, closeRequestedBy>>
        /\ UNCHANGED hookVars

ReceiveFrame == \E event \in WireFrames : Deliver(event)

ReceiveDispatchFrame == \E event \in DispatchWireFrames : Deliver(event)

(* A server that follows one of the two protocols: after an optional          *)
(* auth_success either stream_start, one or more chunk, complete (legacy), or  *)
(* chat_start, text_complete, chat_complete with voice and image frames at any *)
(* point after chat_start (phased); it sends nothing after the completion.     *)

\* the frames of the turn: those delivered after the optional auth_success
Turn(r) ==
    LET fs == [i \in 1..Len(r) |-> r[i].value]
    IN  IF fs # <<>> /\ fs[1].type = "auth_success" THEN Tail(fs) ELSE fs

CountType(fs, t) == Cardinality({ i \in 1..Len(fs) : fs[i].type = t })

\* the contents of the chunk frames, concatenated in arrival order
RECURSIVE Streamed(_)
Streamed(fs) ==
    IF fs = <<>> THEN ""
    ELSE (IF Head(fs).type = "chunk" THEN Head(fs).content ELSE "") \o Streamed(Tail(fs))

\* complete with a final text, or without the field full_response
CompleteFrames(t) ==
    { [type |-> "complete", full_response |-> x] : x \in FinalTexts \cup {Streamed(t)} }
    \cup { [type |-> "complete"] }

ServerFrames(r) ==
    LET t == Turn(r) IN
    IF t = <<>>
    THEN (IF r = <<>> THEN {AuthSuccess} ELSE {}) \cup {StreamStart} \cup ChatStartFrames
    ELSE IF t[Len(t)].type \in {"complete", "chat_complete"} THEN {}
    ELSE IF t[1].type = "stream_start"
    THEN (IF CountType(t, "chunk") < MaxChunks THEN ChunkFrames ELSE {})
         \cup (IF CountType(t, "chunk") >= 1 THEN CompleteFrames(t) ELSE {})
    ELSE (IF CountType(t, "text_complete") = 0 THEN TextCompleteFrames ELSE ChatCompleteFrames)
         \cup (IF Len(t) - 1 - CountType(t, "text_complete") < MaxExtras
               THEN ExtraFrames ELSE {})

ReceiveProtocolFrame ==
    \E f \in ServerFrames(received) : Deliver([data |-> "json", value |-> f])

TransportFail ==
    /\ mgr.readyState # "CLOSED"
    /\ mgr' = onclose(onerror([mgr EXCEPT !.readyState = "CLOSED"]))
    /\ UNCHANGED <<framesLeft, sinceFrame, closeCalls, gapAtExpiry, errorMark, seenTypes,
                   lateFrames, closeRequestedBy, received>>
    /\ UNCHANGED hookVars

TransportClose ==
    /\ mgr.readyState \in {"OPEN", "CLOSING"}
    /\ ~mgr.mustFail
    /\ mgr' = onclose([mgr EXCEPT !.readyState = "CLOSED"])
    /\ UNCHANGED <<framesLeft, sinceFrame, closeCalls, gapAtExpiry, errorMark, seenTypes,
                   lateFrames, closeRequestedBy, received>>
    /\ UNCHANGED hookVars

\* who asked the transport to close, once the call of close() by `who` is made
RequestedBy(who) ==
    IF closeRequestedBy = "" /\ mgr.readyState \in {"OPEN", "CONNECTING"}
    THEN who ELSE closeRequestedBy

CountClose == IF closeCalls < 2 THEN closeCalls + 1 ELSE closeCalls

(* The timers of the event loop *)

IdleTimerExpire ==
    /\ \E t \in IdleTimers(mgr) :
         /\ t.left = 0
         /\ mgr' = idleTimeoutCallback([mgr EXCEPT !.timers = @ \ {t}])
    /\ closeCalls' = CountClose
    /\ gapAtExpiry' = IF gapAtExpiry = -1 \/ sinceFrame < gapAtExpiry
                       THEN sinceFrame ELSE gapAtExpiry
    /\ closeRequestedBy' = RequestedBy("idle timer")
    /\ UNCHANGED <<framesLeft, sinceFrame, errorMark, seenTypes, lateFrames, received>>
    /\ UNCHANGED hookVars

AutoCloseExpire ==
    /\ \E t \in AutoCloseTimers(mgr) :
         /\ t.left = 0
         /\ mgr' = close([mgr EXCEPT !.timers = @ \ {t}])
    /\ closeCalls' = CountClose
    /\ closeRequestedBy' = RequestedBy("autoclose timer")
    /\ UNCHANGED <<framesLeft, sinceFrame, gapAtExpiry, errorMark, seenTypes, lateFrames,
                   received>>
    /\ UNCHANGED hookVars

\* one second passes; a timer that is due fires before time moves on
Tick ==
    /\ mgr.timers # {}
    /\ \A t \in mgr.timers : t.left > 0
    /\ mgr' = [mgr EXCEPT !.timers = { [t EXCEPT !.left = @ - 1] : t \in @ }]
    /\ sinceFrame' = IF IdleTimers(mgr) # {} THEN sinceFrame + 1 ELSE sinceFrame
    /\ UNCHANGED <<framesLeft, closeCalls, gapAtExpiry, errorMark, seenTypes, lateFrames,
                   closeRequestedBy, received>>
    /\ UNCHANGED hookVars

(* The caller *)

CallerClose ==
    /\ mgr' = close(mgr)
    /\ closeCalls' = CountClose
    /\ closeRequestedBy' = RequestedBy("caller")
    /\ UNCHANGED <<framesLeft, sinceFrame, gapAtExpiry, errorMark, seenTypes, lateFrames,
                   received>>
    /\ UNCHANGED hookVars

Next ==
    \/ TransportOpen
    \/ ReceiveFrame
    \/ TransportFail
    \/ TransportClose
    \/ IdleTimerExpire
    \/ AutoCloseExpire
    \/ Tick
    \/ CallerClose

Spec == Init /\ [][Next]_vars

\* the event loop runs a timer that is due, and time passes
FairSpec ==
    /\ FairInit
    /\ [][Next]_vars
    /\ WF_vars(Tick)
    /\ WF_vars(IdleTimerExpire)
    /\ WF_vars(AutoCloseExpire)

\* the session with a server that sends voice frames and frames of unknown type;
\* such a server sends no completion frame, so no auto-close timer is ever armed
DispatchNext ==
    \/ TransportOpen
    \/ ReceiveDispatchFrame
    \/ TransportFail
    \/ TransportClose
    \/ IdleTimerExpire
    \/ Tick
    \/ CallerClose

DispatchSpec == DispatchInit /\ [][DispatchNext]_vars

\* the session with a server that follows one of the two protocols
ProtocolNext ==
    \/ TransportOpen
    \/ ReceiveProtocolFrame
    \/ TransportFail
    \/ TransportClose
    \/ IdleTimerExpire
    \/ AutoCloseExpire
    \/ Tick
    \/ CallerClose

ProtocolSpec == ProtocolInit /\ [][ProtocolNext]_vars

-----------------------------------------------------------------------------
(* The caller hook useMessageHandler and the sessions it creates.  The hook  *)
(* passes its callbacks to every session; a callback runs inside the handler  *)
(* of the session that invokes it.  Time is not counted here: a pending timer *)
(* of a session may fire at any moment.                                       *)

HookFrames ==
    { AuthSuccess,
      [type |-> "text_complete", chat_id |-> "c1", full_response |-> "Hello"],
      [type |-> "chat_complete", chat_id |-> "c1"],
      [type |-> "error", error |-> "rate limited"] }

\* the callbacks that call setIsLoading(false)
ClearsLoading == {"setSources", "setAnswer", "onError", "onTextComplete", "onChatComplete"}

\* the hook forgets the session it holds without closing it
forgetHeld(h, ss) ==
    [hook |-> [h EXCEPT !.wsManagerRef = NoSession], sessions |-> ss]

\* if (wsManagerRef.current) { wsManagerRef.current.close(); wsManagerRef.current = null; }
closeHeld(h, ss) ==
    IF h.wsManagerRef # NoSession
    THEN [hook |-> [h EXCEPT !.wsManagerRef = NoSession, !.closed = @ \cup {h.wsManagerRef}],
          sessions |-> [ss EXCEPT ![h.wsManagerRef] = close(@)]]
    ELSE [hook |-> h, sessions |-> ss]

\* one invocation of a callback the hook gave to a session
hookCallback(w, c) ==
    LET h1 == IF c[1] \in ClearsLoading THEN [w.hook EXCEPT !.isLoading = FALSE] ELSE w.hook
    IN  IF c[1] = "onChatComplete"
        THEN closeHeld([h1 EXCEPT !.currentMessageIdRef = NullId], w.sessions)
        ELSE [hook |-> h1, sessions |-> w.sessions]

RECURSIVE hookCallbacks(_, _)
hookCallbacks(w, cs) ==
    IF cs = <<>> THEN w ELSE hookCallbacks(hookCallback(w, Head(cs)), Tail(cs))

\* a handler of session k has run and made it s1; the callbacks it invoked have
\* acted on the hook and, through wsManagerRef, on the session the hook holds
SessionHandled(k, s1) ==
    LET cs == SubSeq(s1.calls, Len(sessions[k].calls) + 1, Len(s1.calls))
        w == hookCallbacks([hook |-> hook, sessions |-> [sessions EXCEPT ![k] = s1]], cs)
    IN  /\ hook' = [w.hook EXCEPT !.late = @ \/ hook.wsManagerRef \notin {NoSession, k}]
        /\ sessions' = w.sessions

\* `ai-${Date.now()}`, one id per turn
TurnId(n) == "ai-" \o ToString(n)

\* the turn requests of the hook: enableImage and enableVoice default to true
HookRequests == { o \in TurnRequests : o.enableVoice /\ o.enableImage }

\* submitMessage(inputMessage, enableImage, enableVoice), with a message that is
\* not blank and an auth token; new WebSocket(url) may throw, and then
\* initializeChatWsManager returns null
submitMessage ==
    /\ hook.submits < MaxSubmits
    /\ ~hook.renderedIsLoading
    /\ \E o \in HookRequests, constructed \in BOOLEAN :
         LET h1 == [hook EXCEPT !.submits = @ + 1,
                                !.currentMessageIdRef = TurnId(hook.submits + 1),
                                !.isLoading = TRUE]
             w == closeHeld(h1, sessions)
         IN  IF constructed
             THEN /\ sessions' = Append(w.sessions, constructor(o))
                  /\ hook' = [w.hook EXCEPT !.wsManagerRef = Len(sessions) + 1]
             ELSE /\ sessions' = w.sessions
                  /\ hook' = [w.hook EXCEPT !.isLoading = FALSE]
    /\ UNCHANGED <<sessionVars, framesLeft>>

\* the component renders again: submitMessage now sees the current isLoading
Render ==
    /\ hook.renderedIsLoading # hook.isLoading
    /\ hook' = [hook EXCEPT !.renderedIsLoading = hook.isLoading]
    /\ UNCHANGED <<sessionVars, framesLeft, sessions>>

cleanup ==
    /\ LET w == closeHeld(hook, sessions)
       IN  hook' = w.hook /\ sessions' = w.sessions
    /\ UNCHANGED <<sessionVars, framesLeft>>

(* The events of the sessions of the hook *)

HookTransportOpen ==
    /\ \E k \in 1..Len(sessions) :
         /\ sessions[k].readyState = "CONNECTING"
         /\ SessionHandled(k, onopen([sessions[k] EXCEPT !.readyState = "OPEN"]))
    /\ UNCHANGED <<sessionVars, framesLeft>>

HookReceiveFrame ==
    /\ framesLeft > 0
    /\ \E k \in 1..Len(sessions), f \in HookFrames :
         /\ sessions[k].readyState = "OPEN"
         /\ SessionHandled(k, onmessage(sessions[k], [data |-> "json", value |-> f]))
    /\ framesLeft' = framesLeft - 1
    /\ UNCHANGED sessionVars

HookTransportFail ==
    /\ \E k \in 1..Len(sessions) :
         /\ sessions[k].readyState # "CLOSED"
         /\ SessionHandled(k, onclose(onerror([sessions[k] EXCEPT !.readyState = "CLOSED"])))
    /\ UNCHANGED <<sessionVars, framesLeft>>

HookTransportClose ==
    /\ \E k \in 1..Len(sessions) :
         /\ sessions[k].readyState \in {"OPEN", "CLOSING"}
         /\ ~sessions[k].mustFail
         /\ SessionHandled(k, onclose([sessions[k] EXCEPT !.readyState = "CLOSED"]))
    /\ UNCHANGED <<sessionVars, framesLeft>>

\* the idle timer or the auto-close timer of a session fires: both call close()
HookTimerExpire ==
    /\ \E k \in 1..Len(sessions) : \E t \in sessions[k].timers :
         SessionHandled(k, close([sessions[k] EXCEPT !.timers = @ \ {t}]))
    /\ UNCHANGED <<sessionVars, framesLeft>>

\* the hook has created no session yet; the single session of the other
\* specifications is not connected here and stays as constructed
HookInit ==
    /\ mgr = constructor(CHOOSE o \in TurnRequests : ~o.enableVoice)
    /\ framesLeft = MaxHookFrames
    /\ sinceFrame = 0
    /\ closeCalls = 0
    /\ gapAtExpiry = -1
    /\ errorMark = 0
    /\ seenTypes = {}
    /\ lateFrames = 0
    /\ closeRequestedBy = ""
    /\ received = <<>>
    /\ hook = useMessageHandler
    /\ sessions = <<>>

HookNext ==
    \/ submitMessage
    \/ Render
    \/ cleanup
    \/ HookTransportOpen
    \/ HookReceiveFrame
    \/ HookTransportFail
    \/ HookTransportClose
    \/ HookTimerExpire

HookSpec == HookInit /\ [][HookNext]_vars

-----------------------------------------------------------------------------
(* The effect-based hook useChatWsManager (src/unnamed/part_005) in a        *)
(* component: the caller starts a turn by giving a question and setting       *)
(* triggerWs, whose setter it passes as setTriggerWs.  On a render whose       *)
(* dependencies differ from those of the last effect run, React runs the       *)
(* cleanup of that run and then the effect again.  Time is not counted here.   *)

\* the hook after the first render of its component, with triggerWs false: the
\* effect has run and returned early.  props are the current values of the
\* caller's state, deps the values the last effect run saw, wsManager the session
\* that run's cleanup will close, callerChanged whether the caller has changed a
\* prop since the last render
useChatWsManager ==
    [props |-> [triggerWs |-> FALSE, question |-> 0],
     deps |-> [triggerWs |-> FALSE, question |-> 0],
     wsManager |-> NoSession,
     isLoading |-> FALSE,
     mounted |-> TRUE,
     callerChanged |-> FALSE,
     closed |-> {}]

EffectInit ==
    /\ mgr = constructor(CHOOSE o \in TurnRequests : ~o.enableVoice)
    /\ framesLeft = MaxEffectFrames
    /\ sinceFrame = 0
    /\ closeCalls = 0
    /\ gapAtExpiry = -1
    /\ errorMark = 0
    /\ seenTypes = {}
    /\ lateFrames = 0
    /\ closeRequestedBy = ""
    /\ received = <<>>
    /\ hook = useChatWsManager
    /\ sessions = <<>>

\* the caller starts a turn: a new question, and triggerWs set
startTurn ==
    /\ hook.mounted
    /\ hook.props.question < MaxTurns
    /\ hook' = [hook EXCEPT !.props = [triggerWs |-> TRUE, question |-> @.question + 1],
                            !.callerChanged = TRUE]
    /\ UNCHANGED <<sessionVars, framesLeft, sessions>>

\* return () => { if (wsManager) { wsManager.close(); } }
effectCleanup(h, ss) ==
    IF h.wsManager # NoSession
    THEN [hook |-> [h EXCEPT !.closed = @ \cup {h.wsManager}],
          sessions |-> [ss EXCEPT ![h.wsManager] = close(@)]]
    ELSE [hook |-> h, sessions |-> ss]

\* the component renders with props that differ from the dependencies of the
\* last effect run: the cleanup of that run, then the effect body, in which
\* new WebSocket may throw
renderWithChangedDeps ==
    /\ hook.mounted
    /\ hook.props # hook.deps
    /\ LET w == effectCleanup(hook, sessions)
           h1 == [w.hook EXCEPT !.deps = hook.props, !.callerChanged = FALSE,
                                !.wsManager = NoSession]
       IN  IF ~hook.props.triggerWs
           THEN /\ hook' = h1
                /\ sessions' = w.sessions
           ELSE \E constructed \in BOOLEAN, o \in HookRequests :
                  LET h2 == [h1 EXCEPT !.props.triggerWs = FALSE] IN
                  IF constructed
                  THEN /\ sessions' = Append(w.sessions, constructor(o))
                       /\ hook' = [h2 EXCEPT !.wsManager = Len(sessions) + 1,
                                             !.isLoading = TRUE]
                  ELSE /\ sessions' = w.sessions
                       /\ hook' = [h2 EXCEPT !.isLoading = FALSE]
    /\ UNCHANGED <<sessionVars, framesLeft>>

\* the component unmounts: the cleanup of the last effect run
unmount ==
    /\ hook.mounted
    /\ LET w == effectCleanup(hook, sessions)
       IN  /\ hook' = [w.hook EXCEPT !.mounted = FALSE]
           /\ sessions' = w.sessions
    /\ UNCHANGED <<sessionVars, framesLeft>>

\* a handler of session k has run and made it s1; of the callbacks it invoked
\* the hook keeps the loading flag
EffectSessionHandled(k, s1) ==
    LET cs == SubSeq(s1.calls, Len(sessions[k].calls) + 1, Len(s1.calls))
    IN  /\ sessions' = [sessions EXCEPT ![k] = s1]
        /\ hook' = [hook EXCEPT !.isLoading =
                        @ /\ \A i \in 1..Len(cs) : cs[i][1] \notin ClearsLoading]

EffectTransportOpen ==
    /\ \E k \in 1..Len(sessions) :
         /\ sessions[k].readyState = "CONNECTING"
         /\ EffectSessionHandled(k, onopen([sessions[k] EXCEPT !.readyState = "OPEN"]))
    /\ UNCHANGED <<sessionVars, framesLeft>>

EffectReceiveFrame ==
    /\ framesLeft > 0
    /\ \E k \in 1..Len(sessions), f \in HookFrames :
         /\ sessions[k].readyState = "OPEN"
         /\ EffectSessionHandled(k, onmessage(sessions[k], [data |-> "json", value |-> f]))
    /\ framesLeft' = framesLeft - 1
    /\ UNCHANGED sessionVars

EffectTransportFail ==
    /\ \E k \in 1..Len(sessions) :
         /\ sessions[k].readyState # "CLOSED"
         /\ EffectSessionHandled(k, onclose(onerror([sessions[k] EXCEPT !.readyState = "CLOSED"])))
    /\ UNCHANGED <<sessionVars, framesLeft>>

EffectTransportClose ==
    /\ \E k \in 1..Len(sessions) :
         /\ sessions[k].readyState \in {"OPEN", "CLOSING"}
         /\ ~sessions[k].mustFail
         /\ EffectSessionHandled(k, onclose([sessions[k] EXCEPT !.readyState = "CLOSED"]))
    /\ UNCHANGED <<sessionVars, framesLeft>>

\* the idle timer or the auto-close timer of a session fires: both call close()
EffectTimerExpire ==
    /\ \E k \in 1..Len(sessions) : \E t \in sessions[k].timers :
         EffectSessionHandled(k, close([sessions[k] EXCEPT !.timers = @ \ {t}]))
    /\ UNCHANGED <<sessionVars, framesLeft>>

EffectNext ==
    \/ startTurn
    \/ renderWithChangedDeps
    \/ unmount
    \/ EffectTransportOpen
    \/ EffectReceiveFrame
    \/ EffectTransportFail
    \/ EffectTransportClose
    \/ EffectTimerExpire

EffectSpec == EffectInit /\ [][EffectNext]_vars

-----------------------------------------------------------------------------
(* The voice playback queue of createSimpleAudioQueue.  Chunks are numbered  *)
(* in push order.  decodeAudioData is asynchronous: a call of playNext waits  *)
(* at its await until the decoding of its chunk succeeds or fails; a source   *)
(* that was started plays until its ended event.                              *)

\* the closure of createSimpleAudioQueue after creation: queue and isPlaying
\* are its variables, decoding the chunks whose playNext is at the await,
\* playing the sources started and not ended, started the chunks in the order
\* their sources were started
createSimpleAudioQueue ==
    [queue |-> <<>>,
     isPlaying |-> FALSE,
     decoding |-> {},
     playing |-> {},
     started |-> <<>>,
     pushes |-> 0,
     clears |-> 0]

QueueInit ==
    /\ mgr = constructor(CHOOSE o \in TurnRequests : ~o.enableVoice)
    /\ framesLeft = 0
    /\ sinceFrame = 0
    /\ closeCalls = 0
    /\ gapAtExpiry = -1
    /\ errorMark = 0
    /\ seenTypes = {}
    /\ lateFrames = 0
    /\ closeRequestedBy = ""
    /\ received = <<>>
    /\ hook = createSimpleAudioQueue
    /\ sessions = <<>>

\* playNext up to its await
playNext(q) ==
    IF q.queue = <<>> \/ q.isPlaying
    THEN q
    ELSE [q EXCEPT !.isPlaying = TRUE, !.queue = Tail(@), !.decoding = @ \cup {Head(q.queue)}]

\* push(chunk)
push ==
    /\ hook.pushes < MaxPushes
    /\ LET q == [hook EXCEPT !.pushes = @ + 1, !.queue = Append(@, hook.pushes + 1)]
       IN  hook' = IF ~q.isPlaying THEN playNext(q) ELSE q
    /\ UNCHANGED <<sessionVars, framesLeft, sessions>>

\* clear()
clear ==
    /\ hook.clears < MaxClears
    /\ hook' = [hook EXCEPT !.clears = @ + 1, !.queue = <<>>, !.isPlaying = FALSE]
    /\ UNCHANGED <<sessionVars, framesLeft, sessions>>

\* decodeAudioData resolves: playNext goes on after its await and starts the source
decodeResolved ==
    /\ \E c \in hook.decoding :
         hook' = [hook EXCEPT !.decoding = @ \ {c}, !.playing = @ \cup {c},
                              !.started = Append(@, c)]
    /\ UNCHANGED <<sessionVars, framesLeft, sessions>>

\* decodeAudioData rejects: the catch block of playNext
decodeRejected ==
    /\ \E c \in hook.decoding :
         hook' = playNext([hook EXCEPT !.decoding = @ \ {c}, !.isPlaying = FALSE])
    /\ UNCHANGED <<sessionVars, framesLeft, sessions>>

\* source.onended
onended ==
    /\ \E c \in hook.playing :
         hook' = playNext([hook EXCEPT !.playing = @ \ {c}, !.isPlaying = FALSE])
    /\ UNCHANGED <<sessionVars, framesLeft, sessions>>

QueueNext ==
    \/ push
    \/ clear
    \/ decodeResolved
    \/ decodeRejected
    \/ onended

QueueSpec == QueueInit /\ [][QueueNext]_vars

-----------------------------------------------------------------------------
(* Two sessions run side by side: they are constructed with requests that   *)
(* differ in enableVoice or enableImage and in nothing else, and every event  *)
(* of the transport, every frame, every timer and every call of close()      *)
(* happens to both.  Time is not counted here.                                *)

FlagRequests ==
    { [question |-> "Hi", authToken |-> "jwt", enableVoice |-> v, enableImage |-> i,
       chatId |-> "c0"] : v \in BOOLEAN, i \in BOOLEAN }

TwinFrames ==
    ChatStartFrames \cup ChatCompleteFrames \cup
    { AuthSuccess,
      StreamStart,
      [type |-> "text_complete", chat_id |-> "c1", full_response |-> "Hello"],
      [type |-> "voice_chunk", chat_id |-> "c1", audio |-> "AAA"],
      [type |-> "error", error |-> "rate limited"] }

TwinInit ==
    /\ mgr = constructor(CHOOSE o \in TurnRequests : ~o.enableVoice)
    /\ framesLeft = MaxTwinFrames
    /\ sinceFrame = 0
    /\ closeCalls = 0
    /\ gapAtExpiry = -1
    /\ errorMark = 0
    /\ seenTypes = {}
    /\ lateFrames = 0
    /\ closeRequestedBy = ""
    /\ received = <<>>
    /\ hook = useMessageHandler
    /\ \E o1 \in FlagRequests, o2 \in FlagRequests :
         /\ o1 # o2
         /\ o1.enableVoice \/ ~o2.enableVoice
         /\ (o1.enableVoice = o2.enableVoice) => o1.enableImage
         /\ sessions = <<constructor(o1), constructor(o2)>>

\* the variables the two sessions leave alone
twinFrame == <<mgr, sinceFrame, closeCalls, gapAtExpiry, errorMark, seenTypes, lateFrames,
               closeRequestedBy, hook>>

TwinTransportOpen ==
    /\ \A k \in 1..2 : sessions[k].readyState = "CONNECTING"
    /\ sessions' = [k \in 1..2 |-> onopen([sessions[k] EXCEPT !.readyState = "OPEN"])]
    /\ UNCHANGED <<twinFrame, framesLeft, received>>

TwinReceiveFrame ==
    /\ framesLeft > 0
    /\ \A k \in 1..2 : sessions[k].readyState = "OPEN"
    /\ \E f \in TwinFrames :
         LET event == [data |-> "json", value |-> f]
         IN  /\ sessions' = [k \in 1..2 |-> onmessage(sessions[k], event)]
             /\ received' = Append(received, event)
    /\ framesLeft' = framesLeft - 1
    /\ UNCHANGED twinFrame

TwinTransportFail ==
    /\ \A k \in 1..2 : sessions[k].readyState # "CLOSED"
    /\ sessions' = [k \in 1..2 |-> onclose(onerror([sessions[k] EXCEPT !.readyState = "CLOSED"]))]
    /\ UNCHANGED <<twinFrame, framesLeft, received>>

TwinTransportClose ==
    /\ \A k \in 1..2 : sessions[k].readyState \in {"OPEN", "CLOSING"} /\ ~sessions[k].mustFail
    /\ sessions' = [k \in 1..2 |-> onclose([sessions[k] EXCEPT !.readyState = "CLOSED"])]
    /\ UNCHANGED <<twinFrame, framesLeft, received>>

\* the same timer fires in both sessions: the idle timer or the auto-close timer
TwinTimerExpire ==
    /\ \E t \in sessions[1].timers \cap sessions[2].timers :
         sessions' = [k \in 1..2 |->
                        IF t.kind = "idle"
                        THEN idleTimeoutCallback([sessions[k] EXCEPT !.timers = @ \ {t}])
                        ELSE close([sessions[k] EXCEPT !.timers = @ \ {t}])]
    /\ UNCHANGED <<twinFrame, framesLeft, received>>

TwinCallerClose ==
    /\ sessions' = [k \in 1..2 |-> close(sessions[k])]
    /\ UNCHANGED <<twinFrame, framesLeft, received>>

TwinNext ==
    \/ TwinTransportOpen
    \/ TwinReceiveFrame
    \/ TwinTransportFail
    \/ TwinTransportClose
    \/ TwinTimerExpire
    \/ TwinCallerClose

TwinSpec == TwinInit /\ [][TwinNext]_vars

-----------------------------------------------------------------------------
(* Properties *)

ChatFrameSent == \E i \in 1..Len(mgr.sent) : mgr.sent[i].type = "chat"

TerminalCallbacks(s) == Count(s, "onChatComplete") + Count(s, "onError")

\* a step in which close() is invoked, by the caller or by a timer
CloseInvoked == CallerClose \/ IdleTimerExpire \/ AutoCloseExpire

\* a step that processes a completion frame
CompletionProcessed ==
    /\ ReceiveFrame
    /\ Count(mgr', "onChatComplete") = Count(mgr, "onChatComplete") + 1

\* the fields of the session a caller can observe, and its idle timer
SessionView(s) == [s EXCEPT !.timers = IdleTimers(s)]

\* C1: a frame of type chat is on the socket only if an auth_success frame has
\* been processed before, under every interleaving of transport events and timers.
C1_ChatOnlyAfterAuthSuccess ==
    ChatFrameSent => "auth_success" \in seenTypes

C1_Witness ==
    /\ ChatFrameSent
    /\ mgr.isAuthenticated
    /\ mgr.sent[1].type = "auth"

\* C2: over the lifetime of a session onChatComplete and onError are invoked at
\* most once, taken together.
C2_AtMostOneTerminalCallback ==
    TerminalCallbacks(mgr) <= 1

\* C3: an error frame that follows chat_start invokes onError exactly once, with
\* the reason of the frame, and that invocation stays the last callback of the
\* session: nothing the session handles afterwards invokes a callback.
C3_ErrorFrameIsFinal ==
    errorMark > 0 =>
        /\ Len(mgr.calls) = errorMark
        /\ mgr.calls[errorMark] = <<"onError", "rate limited">>
        /\ Count(mgr, "onError") = 1

\* C4: an idle timer expires only when Timeout ticks have passed since
\* construction or the last parsed frame (so with all gaps shorter than Timeout it
\* never expires), and every pending idle timer is the one the session references:
\* a timer armed before a frame does not survive the processing of that frame.
C4_NoExpiryWithinTimeout ==
    /\ gapAtExpiry = -1 \/ gapAtExpiry >= Timeout
    /\ \A t \in IdleTimers(mgr) : t.id = mgr.timeoutId

C4_Witness ==
    /\ lateFrames >= 2
    /\ sinceFrame >= 1
    /\ gapAtExpiry = -1
    /\ IdleTimers(mgr) # {}

\* C5: the expiry of the idle timer asks the transport to close as close() does,
\* and neither that step nor the end of the connection that this close brings
\* about invokes onChatComplete or onError.
C5_IdleExpiryClosesSilently ==
    [][ /\ IdleTimerExpire =>
             /\ TerminalCallbacks(mgr') = TerminalCallbacks(mgr)
             /\ mgr'.timeoutId = NoTimer
             /\ mgr'.closeRequests =
                  mgr.closeRequests + (IF mgr.readyState \in {"OPEN", "CONNECTING"} THEN 1 ELSE 0)
        /\ ( /\ closeRequestedBy = "idle timer"
             /\ TransportClose \/ (TransportFail /\ mgr.mustFail) ) =>
             TerminalCallbacks(mgr') = TerminalCallbacks(mgr)
      ]_vars

\* C6: once a completion or an error event has been processed, the idle timer is
\* disarmed and stays disarmed for the rest of the session.
C6_DisarmedForGood ==
    TerminalCallbacks(mgr) > 0 => (mgr.timeoutId = NoTimer /\ IdleTimers(mgr) = {})

\* C6, amended: the step that processes a completion or an error event leaves the
\* idle timer disarmed, and from then on only the processing of a further inbound
\* frame arms it again.
C6_DisarmedUntilNextFrame ==
    [][ /\ TerminalCallbacks(mgr') > TerminalCallbacks(mgr) =>
             (mgr'.timeoutId = NoTimer /\ IdleTimers(mgr') = {})
        /\ (TerminalCallbacks(mgr) > 0 /\ IdleTimers(mgr) = {} /\ IdleTimers(mgr') # {}) =>
             ReceiveFrame
      ]_vars

C6_Witness ==
    /\ Count(mgr, "onChatComplete") = 1
    /\ mgr.timeoutId # NoTimer
    /\ IdleTimers(mgr) # {}
    /\ "ping" \in seenTypes

\* C7: a call of close() that follows an earlier call of close() invokes no
\* callback and leaves the session as it was: timer disarmed, transport not asked
\* to close again, answer and ids unchanged.
C7_CloseIsIdempotent ==
    [][ (closeCalls >= 1 /\ CloseInvoked) =>
            /\ SessionView(mgr') = SessionView(mgr)
            /\ mgr'.timeoutId = NoTimer
      ]_vars

C7_Witness ==
    /\ closeCalls = 2
    /\ closeRequestedBy = "idle timer"
    /\ mgr.closeRequests = 1

\* C8: every call of close() cancels the idle timer and asks the transport to
\* close exactly when the transport is OPEN or CONNECTING; the transport is asked
\* to close at most once in a session.
C8_CloseRequestsAtMostOnce ==
    /\ [][ CloseInvoked =>
              /\ mgr'.timeoutId = NoTimer
              /\ IdleTimers(mgr') = {}
              /\ mgr'.closeRequests =
                   mgr.closeRequests + (IF mgr.readyState \in {"OPEN", "CONNECTING"} THEN 1 ELSE 0)
         ]_vars
    /\ [](mgr.closeRequests <= 1)

C8_Witness ==
    /\ closeCalls = 2
    /\ mgr.closeRequests = 1
    /\ Count(mgr, "onChatComplete") >= 1
    /\ AutoCloseTimers(mgr) = {}

\* C9: after close() has been called, nothing the handlers of the session receive
\* invokes a callback, sends a frame, changes answer, currentChatId, voiceEnabled
\* or isAuthenticated, or arms the idle timer.
C9_ClosedSessionIsInert ==
    [][ closeCalls >= 1 =>
            /\ mgr'.calls = mgr.calls
            /\ mgr'.sent = mgr.sent
            /\ mgr'.answer = mgr.answer
            /\ mgr'.currentChatId = mgr.currentChatId
            /\ mgr'.voiceEnabled = mgr.voiceEnabled
            /\ mgr'.isAuthenticated = mgr.isAuthenticated
            /\ IdleTimers(mgr') = {}
      ]_vars

\* C10: the step that processes a completion frame and invokes onChatComplete
\* does not close the transport but arms a timer of AutoCloseDelay; that timer
\* fires without any caller action and calls close(), after which the transport is
\* neither OPEN nor CONNECTING.
C10_AutoCloseAfterCompletion ==
    /\ [][ CompletionProcessed =>
              /\ mgr'.readyState = mgr.readyState
              /\ mgr'.closeRequests = mgr.closeRequests
              /\ \E t \in AutoCloseTimers(mgr') \ AutoCloseTimers(mgr) : t.left = AutoCloseDelay
         ]_vars
    /\ [][ AutoCloseExpire => mgr'.readyState \in {"CLOSING", "CLOSED"} ]_vars
    /\ (AutoCloseTimers(mgr) # {}) ~> (AutoCloseTimers(mgr) = {})

C10_Witness ==
    /\ Count(mgr, "onChatComplete") = 1
    /\ AutoCloseTimers(mgr) = {}
    /\ closeRequestedBy = "autoclose timer"
    /\ closeCalls = 1

\* the step delivers a message event that parses to a frame of the given type
FrameStep(type) ==
    /\ Len(received') = Len(received) + 1
    /\ "value" \in DOMAIN received'[Len(received')]
    /\ Field(received'[Len(received')].value, "type") = type

\* the frame delivered by such a step
StepFrame == received'[Len(received')].value

\* the callbacks invoked by the step
StepCalls == SubSeq(mgr'.calls, Len(mgr.calls) + 1, Len(mgr'.calls))

\* C11: a voice_complete frame with a non-empty audio invokes onVoiceChunk once
\* with the chat_id, the audio and the format of the frame ("mp3" when it has
\* none) and then at once onVoiceComplete, and nothing else; a voice_complete frame
\* with an absent or empty audio invokes onVoiceComplete alone.
C11_VoiceCompleteForwardsAudio ==
    [][ FrameStep("voice_complete") =>
          /\ mgr.calls = SubSeq(mgr'.calls, 1, Len(mgr.calls))
          /\ IF "audio" \in DOMAIN StepFrame /\ StepFrame.audio # ""
             THEN StepCalls =
                    << <<"onVoiceChunk", StepFrame.chat_id, StepFrame.audio,
                         IF "format" \in DOMAIN StepFrame THEN StepFrame.format ELSE "mp3">>,
                       <<"onVoiceComplete", StepFrame.chat_id>> >>
             ELSE StepCalls = << <<"onVoiceComplete", StepFrame.chat_id>> >>
      ]_vars

C11_Witness ==
    /\ Len(mgr.calls) >= 4
    /\ mgr.calls[Len(mgr.calls) - 2] = <<"onVoiceComplete", "c1">>
    /\ mgr.calls[Len(mgr.calls) - 1] = <<"onVoiceChunk", "c1", "DDD", "mp3">>
    /\ mgr.calls[Len(mgr.calls)] = <<"onVoiceComplete", "c1">>
    /\ Len(received) >= 2
    /\ received[Len(received) - 1].value = [type |-> "voice_complete", chat_id |-> "c1"]
    /\ received[Len(received)].value =
         [type |-> "voice_complete", chat_id |-> "c1", audio |-> "DDD"]

IsChatComplete(c) == c[1] = "onChatComplete"

\* the fullResponse arguments of the invocations of onChatComplete, in order
CompletedTexts(s) ==
    LET cs == SelectSeq(s.calls, IsChatComplete) IN [i \in 1..Len(cs) |-> cs[i][4]]

\* the turn is the whole legacy sequence, and its final text is the text streamed
LegacyRun(t) ==
    /\ Len(t) >= 3
    /\ t[1].type = "stream_start"
    /\ \A i \in 2..(Len(t) - 1) : t[i].type = "chunk"
    /\ t[Len(t)].type = "complete"
    /\ "full_response" \in DOMAIN t[Len(t)]
    /\ t[Len(t)].full_response = Streamed(t)

\* the turn is the phased sequence chat_start, text_complete, chat_complete
PhasedRun(t) ==
    /\ Len(t) = 3
    /\ t[1].type = "chat_start"
    /\ t[2].type = "text_complete"
    /\ t[3].type = "chat_complete"

\* C12: a session that was fed stream_start, one or more chunk frames and
\* complete{full_response: T}, the chunks being a split of T, and a session that
\* was fed chat_start, text_complete{full_response: T}, chat_complete have each
\* invoked onChatComplete exactly once, with T as fullResponse.
C12_BothProtocolsCompleteWithT ==
    LET t == Turn(received) IN
    /\ LegacyRun(t) => CompletedTexts(mgr) = << t[Len(t)].full_response >>
    /\ PhasedRun(t) => CompletedTexts(mgr) = << t[2].full_response >>

C12_Witness ==
    /\ LegacyRun(Turn(received))
    /\ CountType(Turn(received), "chunk") = 2
    /\ Turn(received)[2].content = "Hel"
    /\ CompletedTexts(mgr) = << "Hello" >>

IsPhaseCallback(c) == c[1] \in {"onChatStart", "onTextComplete", "onChatComplete"}

\* the turn is a whole phased sequence: chat_start, one text_complete and voice
\* and image frames in any order, chat_complete
PhasedTurn(t) ==
    /\ Len(t) >= 3
    /\ t[1].type = "chat_start"
    /\ t[Len(t)].type = "chat_complete"
    /\ CountType(t, "text_complete") = 1

\* C13: after auth_success, chat_start{c, m, v}, text_complete{c, T} and
\* chat_complete{c}, with voice and image frames anywhere in between, the session
\* has invoked onChatStart(c, m, v or false, image_enabled or false),
\* onTextComplete(c, T) and onChatComplete(c, _, T, ...), in this order and each
\* once: the text delivered at completion is the text of text_complete.
C13_PhasedTurnCallbacks ==
    LET t == Turn(received)
        tc == t[CHOOSE i \in 1..Len(t) : t[i].type = "text_complete"]
        pc == SelectSeq(mgr.calls, IsPhaseCallback)
    IN  PhasedTurn(t) =>
          /\ Len(pc) = 3
          /\ pc[1] = <<"onChatStart", t[1].chat_id, t[1].message_id,
                       "voice_enabled" \in DOMAIN t[1] /\ t[1].voice_enabled,
                       "image_enabled" \in DOMAIN t[1] /\ t[1].image_enabled>>
          /\ pc[2] = <<"onTextComplete", tc.chat_id, tc.full_response>>
          /\ pc[3][1] = "onChatComplete"
          /\ pc[3][2] = t[Len(t)].chat_id
          /\ pc[3][4] = tc.full_response

C13_Witness ==
    /\ Len(received) = 6
    /\ received[1].value = AuthSuccess
    /\ PhasedTurn(Turn(received))
    /\ received[5].value.type = "image_complete"
    /\ received[2].value =
         [type |-> "chat_start", chat_id |-> "c1", message_id |-> "m1", voice_enabled |-> TRUE]
    /\ received[3].value.type = "text_complete"
    /\ received[4].value.type = "voice_complete"
    /\ CompletedTexts(mgr) = << "Hello" >>
    /\ Count(mgr, "onVoiceChunk") = 1

\* C14: in the legacy protocol every chunk{content: x} appends x to the answer
\* buffer and invokes setAnswer once, with the concatenation of the chunk contents
\* so far; complete{full_response: T} makes T the buffer, invokes setAnswer(T) and
\* then onChatComplete, once, with fullResponse T.
C14_LegacyStreaming ==
    [][ /\ FrameStep("chunk") =>
             /\ mgr'.answer = mgr.answer \o StepFrame.content
             /\ mgr.calls = SubSeq(mgr'.calls, 1, Len(mgr.calls))
             /\ StepCalls = << <<"setAnswer", Streamed(Turn(received'))>> >>
        /\ (FrameStep("complete") /\ "full_response" \in DOMAIN StepFrame) =>
             /\ mgr'.answer = StepFrame.full_response
             /\ mgr.calls = SubSeq(mgr'.calls, 1, Len(mgr.calls))
             /\ Len(StepCalls) = 2
             /\ StepCalls[1] = <<"setAnswer", StepFrame.full_response>>
             /\ StepCalls[2][1] = "onChatComplete"
             /\ StepCalls[2][4] = StepFrame.full_response
             /\ Count(mgr', "onChatComplete") = 1
      ]_vars

\* the positions of the auth frames among the frames sent
AuthFrames(s) == { i \in 1..Len(s.sent) : s.sent[i].type = "auth" }

\* C15: a session whose transport has opened has sent exactly one auth frame, as
\* its first frame; the step in which the transport opens invokes onConnect and
\* then sends the auth frame, with nothing in between; no other step sends an auth
\* frame, and nothing is sent before the transport opens.
C15_OneAuthFrameAtOpen ==
    /\ [](Count(mgr, "onConnect") >= 1 => AuthFrames(mgr) = {1})
    /\ [](Count(mgr, "onConnect") = 0 => mgr.sent = <<>>)
    /\ [][ TransportOpen =>
              /\ mgr'.effects = mgr.effects \o << <<"callback", "onConnect">>, <<"send", "auth">> >>
              /\ mgr'.sent = << [type |-> "auth", token |-> mgr.options.authToken] >>
         ]_vars
    /\ [][ AuthFrames(mgr') # AuthFrames(mgr) => TransportOpen ]_vars

C15_Witness ==
    /\ AuthFrames(mgr) = {1}
    /\ Len(mgr.sent) >= 2
    /\ Len(received) = 3
    /\ received[1] = [data |-> "json", value |-> AuthSuccess]
    /\ received[3] = [data |-> "json", value |-> AuthSuccess]

IdleTimerIds(s) == { t.id : t \in IdleTimers(s) }

\* C16: at most one idle timer is pending, and it is the one the session
\* references; a step arms an idle timer only by handling an inbound frame (the
\* constructor armed the first one), and such a step leaves none of the idle
\* timers that were pending before it.
C16_SingleIdleTimer ==
    /\ [](/\ Cardinality(IdleTimers(mgr)) <= 1
          /\ IdleTimerIds(mgr) \subseteq {mgr.timeoutId})
    /\ [][ (IdleTimerIds(mgr') \ IdleTimerIds(mgr) # {}) =>
              /\ ReceiveFrame
              /\ "value" \in DOMAIN received'[Len(received')]
              /\ IdleTimerIds(mgr') \cap IdleTimerIds(mgr) = {}
         ]_vars

C16_Witness ==
    /\ Cardinality(IdleTimers(mgr)) = 1
    /\ AutoCloseTimers(mgr) # {}
    /\ mgr.timeoutId >= 4
    /\ Len(received) = 3

\* the step delivers a message event whose data is not JSON
NotJsonStep ==
    /\ Len(received') = Len(received) + 1
    /\ "value" \notin DOMAIN received'[Len(received')]

\* the step invokes onError once, with the given reason, and nothing else, and
\* ends with the idle timer disarmed
ReportsOnce(reason) ==
    /\ mgr.calls = SubSeq(mgr'.calls, 1, Len(mgr.calls))
    /\ StepCalls = << <<"onError", reason>> >>
    /\ mgr'.timeoutId = NoTimer
    /\ IdleTimers(mgr') = {}

RecognisedTypes ==
    { "auth_success", "chat_start", "text_complete", "voice_start", "voice_chunk",
      "voice_complete", "chat_complete", "image_start", "image_progress", "image_complete",
      "image_error", "stream_start", "chunk", "complete", "chat_chunk", "error" }

\* the step delivers a parsed frame whose type is none of the recognised ones
UnknownTypeStep ==
    /\ Len(received') = Len(received) + 1
    /\ "value" \in DOMAIN received'[Len(received')]
    /\ Field(received'[Len(received')].value, "type") \notin RecognisedTypes

\* C18: a parsed frame whose type is not a recognised one invokes no callback,
\* sends nothing and changes nothing of the session but its idle timer, whatever
\* other fields it carries.
C18_UnknownTypeIsIgnored ==
    [][ UnknownTypeStep =>
          /\ mgr'.calls = mgr.calls
          /\ mgr'.sent = mgr.sent
          /\ mgr'.answer = mgr.answer
          /\ mgr'.currentChatId = mgr.currentChatId
          /\ mgr'.voiceEnabled = mgr.voiceEnabled
          /\ mgr'.isAuthenticated = mgr.isAuthenticated
          /\ mgr'.readyState = mgr.readyState
      ]_vars

IsVoiceChunkCall(c) == c[1] = "onVoiceChunk"

\* the audio arguments of the invocations of onVoiceChunk, in order
ForwardedAudio(s) ==
    LET cs == SelectSeq(s.calls, IsVoiceChunkCall) IN [i \in 1..Len(cs) |-> cs[i][3]]

IsVoiceChunkFrame(e) == "value" \in DOMAIN e /\ Field(e.value, "type") = "voice_chunk"

\* a voice_chunk frame, or a voice_complete frame with a non-empty audio
CarriesAudio(e) ==
    \/ IsVoiceChunkFrame(e)
    \/ /\ "value" \in DOMAIN e
       /\ Field(e.value, "type") = "voice_complete"
       /\ StrOr(e.value, "audio", "") # ""

\* the callbacks invoked before a step are, in the same order, the first
\* callbacks invoked after it: a step only appends its own
CallbacksInArrivalOrder ==
    [][ /\ mgr.calls = SubSeq(mgr'.calls, 1, Len(mgr.calls))
        /\ FrameStep("voice_chunk") =>
              StepCalls = << <<"onVoiceChunk", StepFrame.chat_id, Field(StepFrame, "audio"),
                               IF "format" \in DOMAIN StepFrame THEN StepFrame.format
                               ELSE "mp3">> >>
      ]_vars

\* C19: the callbacks of a frame all come before the callbacks of the next frame,
\* and the audio arguments of the onVoiceChunk invocations are exactly the audio
\* payloads of the voice_chunk frames, one per frame, in arrival order.
C19_OnlyVoiceChunkFramesForwarded ==
    /\ CallbacksInArrivalOrder
    /\ [](LET es == SelectSeq(received, IsVoiceChunkFrame)
          IN  ForwardedAudio(mgr) = [i \in 1..Len(es) |-> Field(es[i].value, "audio")])

\* C19, amended: the callbacks of a frame all come before the callbacks of the
\* next frame, every voice_chunk frame invokes onVoiceChunk once with its audio,
\* and the audio arguments of the onVoiceChunk invocations are, in arrival order,
\* the audio payloads of the voice_chunk frames and of the voice_complete frames
\* that carry a non-empty audio.
C19_AudioForwardedInArrivalOrder ==
    /\ CallbacksInArrivalOrder
    /\ [](LET es == SelectSeq(received, CarriesAudio)
          IN  ForwardedAudio(mgr) = [i \in 1..Len(es) |-> Field(es[i].value, "audio")])

C19_Witness ==
    /\ ForwardedAudio(mgr) = <<"AAA", "CCC", "BBB">>
    /\ Len(received) = 3
    /\ received[2].value.type = "voice_complete"

\* the sessions whose transport is still open or opening and on which nobody has
\* called close()
OpenSessions == { k \in 1..Len(sessions) : sessions[k].readyState \in {"CONNECTING", "OPEN"} }

\* C20: of the sessions a hook instance has created at most one is open and
\* un-closed, and it is the one wsManagerRef holds; when submitMessage creates a
\* session, close() has been called on the session held before and on every
\* earlier one; cleanup calls close() on the held session and holds none after.
C20_AtMostOneOpenSession ==
    /\ [](/\ Cardinality(OpenSessions) <= 1
          /\ OpenSessions \subseteq {hook.wsManagerRef}
          /\ \A k \in 1..Len(sessions) : k = hook.wsManagerRef \/ k \in hook.closed)
    /\ [][ Len(sessions') > Len(sessions) =>
              /\ hook'.wsManagerRef = Len(sessions')
              /\ \A k \in 1..Len(sessions) :
                    /\ k \in hook'.closed
                    /\ sessions'[k].readyState \in {"CLOSING", "CLOSED"}
         ]_vars
    /\ [][ cleanup =>
              /\ hook'.wsManagerRef = NoSession
              /\ hook.wsManagerRef # NoSession => hook.wsManagerRef \in hook'.closed
         ]_vars

C20_Witness ==
    /\ Len(sessions) = 2
    /\ hook.wsManagerRef = 2
    /\ hook.closed = {1}
    /\ sessions[1].readyState = "CLOSING"
    /\ sessions[1].closeRequests = 1
    /\ Count(sessions[1], "onTextComplete") = 1
    /\ sessions[2].readyState = "OPEN"

\* the session has processed an error event or has been through a close
Ended(s) ==
    \/ Count(s, "onError") > 0
    \/ s.readyState \in {"CLOSING", "CLOSED"}

\* C21: a session opens one transport connection, in its constructor, and never
\* another: a transport that is closing or closed never opens again, and once an
\* error event has been processed or the transport has been asked to close or has
\* closed, no step sends an auth frame; no session sends more than one.
C21_NeverRetries ==
    /\ [](mgr.connections = 1)
    /\ [](Cardinality(AuthFrames(mgr)) <= 1)
    /\ [][ /\ mgr.readyState = "CLOSED" => mgr'.readyState = "CLOSED"
           /\ mgr.readyState = "CLOSING" => mgr'.readyState \in {"CLOSING", "CLOSED"}
           /\ Ended(mgr) => /\ mgr'.connections = mgr.connections
                            /\ AuthFrames(mgr') = AuthFrames(mgr)
         ]_vars

C21_Witness ==
    /\ mgr.readyState = "CLOSED"
    /\ mgr.connections = 1
    /\ AuthFrames(mgr) = {1}
    /\ closeRequestedBy = "idle timer"
    /\ \E i \in 1..Len(mgr.calls) : mgr.calls[i] = <<"onError", "rate limited">>
    /\ mgr.calls[Len(mgr.calls)] = <<"onError", "WebSocket connection error">>

\* no frame has arrived, the transport has not ended and nobody has called close()
Silent ==
    /\ received = <<>>
    /\ mgr.readyState \in {"CONNECTING", "OPEN"}
    /\ closeRequestedBy = ""

\* C22: while no frame has arrived the session has sent at most the auth frame
\* and has invoked neither onAuthenticated nor onChatComplete; only an error event
\* of the transport invokes onError, and the close of an opened session does not
\* make the transport fail; a session that stays without frames, whether its
\* transport opened or not, is in the end asked to close by its idle timer, unless
\* the transport ends or the caller closes first.
C22_SilentServerEndsByIdleTimer ==
    /\ [](received = <<>> =>
            /\ ~ChatFrameSent
            /\ Len(mgr.sent) <= 1
            /\ Count(mgr, "onAuthenticated") = 0
            /\ Count(mgr, "onChatComplete") = 0)
    /\ [](Count(mgr, "onConnect") > 0 => ~mgr.mustFail)
    /\ [][ (received' = <<>> /\ ~TransportFail) => Count(mgr', "onError") = Count(mgr, "onError") ]_vars
    /\ Silent ~> ( \/ closeRequestedBy = "idle timer"
                   \/ closeRequestedBy = "caller"
                   \/ received # <<>>
                   \/ mgr.readyState = "CLOSED" )

C22_Witness ==
    /\ received = <<>>
    /\ mgr.sent = << [type |-> "auth", token |-> "jwt"] >>
    /\ mgr.calls = << <<"onConnect">> >>
    /\ closeRequestedBy = "idle timer"
    /\ gapAtExpiry = Timeout
    /\ mgr.readyState = "CLOSED"
    /\ mgr.closeRequests = 1

IsChatStartCall(c) == c[1] = "onChatStart"

\* the voiceEnabled arguments of the invocations of onChatStart, in order
ReportedVoice(s) ==
    LET cs == SelectSeq(s.calls, IsChatStartCall) IN [i \in 1..Len(cs) |-> cs[i][4]]

IsStartFrame(e) == e.value.type \in {"chat_start", "stream_start"}

\* the voice_enabled of the chat_start and stream_start frames received, false
\* where the frame has none, in order
ConfirmedVoice(r) ==
    LET es == SelectSeq(r, IsStartFrame)
    IN  [i \in 1..Len(es) |-> "voice_enabled" \in DOMAIN es[i].value /\ es[i].value.voice_enabled]

\* a frame sent, without the two requested flags
WithoutFlags(f) == [k \in DOMAIN f \ {"enable_voice", "enable_image"} |-> f[k]]

\* C23: two sessions whose requests differ only in enableVoice and enableImage
\* and that are fed the same events have invoked the same callbacks with the same
\* arguments in the same order, and agree on every field but the request; the
\* frames they sent differ in the enable_voice and enable_image of the chat frame
\* alone, which are the flags requested; the voiceEnabled that onChatStart reports
\* is the voice_enabled of the frame, false when absent.
C23_FlagsOnlyShapeChatFrame ==
    LET a == sessions[1]
        b == sessions[2]
    IN  /\ a.calls = b.calls
        /\ a.effects = b.effects
        /\ [a EXCEPT !.options = b.options, !.sent = b.sent] = b
        /\ Len(a.sent) = Len(b.sent)
        /\ \A i \in 1..Len(a.sent) :
             /\ WithoutFlags(a.sent[i]) = WithoutFlags(b.sent[i])
             /\ a.sent[i].type # "chat" => a.sent[i] = b.sent[i]
        /\ \A k \in 1..2 : \A i \in 1..Len(sessions[k].sent) :
             sessions[k].sent[i].type = "chat" =>
               /\ sessions[k].sent[i].enable_voice = sessions[k].options.enableVoice
               /\ sessions[k].sent[i].enable_image = sessions[k].options.enableImage
        /\ \A k \in 1..2 : ReportedVoice(sessions[k]) = ConfirmedVoice(received)

C23_Witness ==
    /\ sessions[1].options.enableVoice /\ ~sessions[2].options.enableVoice
    /\ sessions[1].sent # sessions[2].sent
    /\ Len(received) = 3
    /\ received[2].value =
         [type |-> "chat_start", chat_id |-> "c1", message_id |-> "m1", voice_enabled |-> FALSE,
          image_enabled |-> TRUE]
    /\ received[3].value.type = "chat_complete"
    /\ sessions[1].calls = sessions[2].calls
    /\ ReportedVoice(sessions[1]) = <<FALSE>>
    /\ Count(sessions[2], "onChatComplete") = 1

\* the positions of the chat frames among the frames sent
ChatFramesSent(s) == { i \in 1..Len(s.sent) : s.sent[i].type = "chat" }

\* C24: a session sends at most one frame of type chat, whatever frames arrive,
\* auth_success more than once included.
C24_ChatSentAtMostOnce ==
    Cardinality(ChatFramesSent(mgr)) <= 1

IsSetAnswer(c) == c[1] = "setAnswer"

\* the values passed to setAnswer so far, in order
AnswersSet(s) ==
    LET cs == SelectSeq(s.calls, IsSetAnswer) IN [i \in 1..Len(cs) |-> cs[i][2]]

\* C25: a step that invokes onChatComplete passes it the answer buffer as
\* fullResponse, and that is the value most recently passed to setAnswer, if any;
\* so also for a legacy complete frame without full_response after chunk frames.
C25_CompletionDeliversBuffer ==
    [][ Count(mgr', "onChatComplete") > Count(mgr, "onChatComplete") =>
          LET c == mgr'.calls[Len(mgr'.calls)]
              set == AnswersSet(mgr')
          IN  /\ c[1] = "onChatComplete"
              /\ c[4] = mgr'.answer
              /\ set # <<>> => c[4] = set[Len(set)]
      ]_vars

\* C26: in a phased turn the voiceEnabled that onChatComplete receives is the
\* voiceEnabled that onChatStart received, which the session keeps in its field
\* voiceEnabled, whether or not the chat_complete frame carries voice_enabled.
C26_VoiceFlagConsistent ==
    LET pc == SelectSeq(mgr.calls, IsPhaseCallback)
    IN  PhasedTurn(Turn(received)) =>
          /\ pc[1][1] = "onChatStart"
          /\ pc[3][1] = "onChatComplete"
          /\ pc[1][4] = mgr.voiceEnabled
          /\ pc[3][5] = pc[1][4]

\* C27: in every reachable state of a session whose transport has not ended, the
\* idle timer or the auto-close timer is pending or the transport has been asked
\* to close: the session closes by itself once the pending timer fires.
C27_AlwaysATimerOrClosed ==
    \/ IdleTimers(mgr) # {}
    \/ AutoCloseTimers(mgr) # {}
    \/ mgr.closeRequests > 0
    \/ mgr.readyState = "CLOSED"

\* C28: an event handled by a session other than the one the hook holds leaves
\* the hook's references and the held session alone: it calls close() on no
\* session, does not change wsManagerRef and does not change currentMessageIdRef;
\* so after turn 1's text_complete and a second submit, nothing the first session
\* handles touches the second session or the second turn.
C28_LateEventsLeaveNewTurnAlone ==
    [][ \A k \in 1..Len(sessions) :
          ( /\ k # hook.wsManagerRef
            /\ hook.wsManagerRef # NoSession
            /\ Len(sessions') = Len(sessions)
            /\ sessions'[k] # sessions[k] ) =>
              /\ hook'.wsManagerRef = hook.wsManagerRef
              /\ hook'.currentMessageIdRef = hook.currentMessageIdRef
              /\ hook'.closed = hook.closed
              /\ sessions'[hook.wsManagerRef] = sessions[hook.wsManagerRef]
      ]_vars

C28_Witness ==
    /\ hook.late
    /\ Len(sessions) = 2
    /\ hook.wsManagerRef = 2
    /\ hook.currentMessageIdRef = TurnId(2)
    /\ hook.closed = {1}
    /\ sessions[1].calls = << <<"onConnect">>, <<"setAnswer", "Hello">>,
                              <<"onTextComplete", "c1", "Hello">>,
                              <<"onError", "WebSocket connection error">> >>
    /\ sessions[1].closeRequests = 1
    /\ sessions[2].readyState = "OPEN"

\* C29: the hook calls close() on a session it created only when the component
\* unmounts or when the caller has changed a prop since the last render; the
\* render that follows the hook's own setTriggerWs(false) closes nothing.
C29_OwnResetDoesNotClose ==
    [][ hook'.closed # hook.closed => (hook.callerChanged \/ ~hook'.mounted) ]_vars

\* C30: the playback queue plays one chunk at a time, in push order: no source
\* is started while a source started before it has not ended, and the sources
\* are started in the order their chunks were pushed, under every interleaving
\* of push, clear, the end of a decoding and the end of a playback.
C30_OneSourceAtATime ==
    /\ Cardinality(hook.playing) <= 1
    /\ \A i \in 1..Len(hook.started), j \in 1..Len(hook.started) :
          i < j => hook.started[i] < hook.started[j]

====
